---------------------------- MODULE Spec2Model ----------------------------
(***************************************************************************)
(* Verification model of the bitburner automation scripts:                 *)
(*   corporation.js / corp-helpers.js  (corporation cycle, investment,     *)
(*                                      warehouse budget, smart supply,    *)
(*                                      export dilution)                   *)
(*   darknet.js                        (probe orchestration)               *)
(*   ipvgo.js                          (main loop)                         *)
(*   corp-api.js                       (corpBatchRead)                     *)
(*   program-manager.js                (purchase loop)                     *)
(*                                                                         *)
(* Each script is modelled by its own group of variables and its own       *)
(* specification; a specification leaves the other groups idle.            *)
(* JavaScript numbers are modelled as exact scaled integers (the unit is   *)
(* stated where the scaling is done); null/undefined values are modelled   *)
(* as the empty sequence <<>> and a present value v as <<v>>.              *)
(***************************************************************************)
EXTENDS Integers, Sequences, FiniteSets, TLC

VARIABLES
    \* ---- corporation.js: checkInvestment / corp-helpers.js: shouldAcceptInvestment
    offer,          \* what getInvestmentOffer() returns: <<>> or <<[funds, shares]>>
    round,          \* state.round
    corpFunds,      \* corpData.funds        (millions of $)
    revenue,        \* corpData.revenue      (millions of $ / s)
    expenses,       \* corpData.expenses     (millions of $ / s)
    lastCheck,      \* inputs and outcome of this cycle's checkInvestment, <<>> before
    \* ---- corp-helpers.js: shouldAcceptInvestment called directly
    acceptArgs,     \* [offer, round, customMinimum, currentFunds] of the call
    acceptResult,   \* <<>> before the call, <<result>> after
    \* ---- corp-helpers.js: calculateWarehouseSpaceBudget
    budgetArgs,     \* [industryType, warehouseSize, productionRate]
    budgetResult,   \* <<>> before the call, <<returned value>> after
    \* ---- corp-helpers.js: calculateMaxExportWithoutDilution / checkExportDilution
    exportArgs,     \* [destQuality, destStored, srcQuality, minQuality]
    exportMax,      \* <<>> before the call, <<returned amount>> after
    dilution,       \* <<>>, or <<[amount, result of checkExportDilution]>>
    \* ---- corp-helpers.js: calculateSmartSupplyQuantities, bought for one market cycle
    supplyArgs,     \* [type, size, stored (material -> units), targetUtilization (%)]
    supplies,       \* <<>> before the call, <<material -> amount per second>> after
    storedAfter,    \* <<>>, or <<material -> units stored after one market cycle>>
    \* ---- program-manager.js
    homeFiles,            \* the programs present on home (ns.fileExists(prog, "home"))
    keepRunning,          \* ns.args.includes('-c')
    includeDarknet,       \* ns.args.includes('--include-darknet')
    foundMissingProgram,  \* the local of main
    pmPc,                 \* "pass": about to run a pass, "sleep": in ns.sleep, "done"
    passes,               \* number of passes of the do-while body made so far
    notPurchased,         \* programs whose purchaseProgram returned false in the last pass
    \* ---- darknet.js
    activeProbes,   \* state.activeProbes
    maxProbes,      \* options['max-probes']
    probeFile,      \* ns.fileExists(probeScript, 'home')
    probeRunning,   \* host -> a probe process runs there (ns.ps / preventDuplicates)
    serverStatus,   \* darknet host -> "offline" | "locked" | "session" | "admin"
    dnPc,           \* position of the main loop within one orchestration cycle
    nearbyTodo,     \* servers of ns.dnet.probe() still to be processed in this cycle
    \* ---- corp-api.js: corpBatchRead
    operations,     \* the request list: a sequence of [name, args]
    opState,        \* per request: "running" | "written" | "done"
    tempFiles,      \* file path -> content (<<>> when never written)
    results,        \* operation name -> <<>> (no key) or <<value>>
    returned,       \* corpBatchRead has returned results
    \* ---- the main loops of corporation.js, darknet.js and ipvgo.js
    script,         \* which script runs: "corporation" | "darknet" | "ipvgo"
    loopPc,         \* "cycle" (inside try), "caught" (inside catch), "sleep", "terminated"
    step,           \* number of steps of the current cycle completed
    err,            \* <<>> or <<kind>>: the value thrown in the current cycle
    logged,         \* the warnings logged by the catch blocks, oldest first
    sleepFor,       \* the argument of the ns.sleep in progress (ms), 0 when not sleeping
    cycles,         \* cycles started so far
    goGameActive,   \* ipvgo.js module variable
    \* ---- corporation.js: runCorpCycle
    hasWarehouse,   \* <<division, city>> -> the game's hasWarehouse(division, city)
    sellPrice,      \* <<division, city>> -> output material -> desiredSellPrice
    positiveBuys,   \* the <<division, city>> given a buyMaterial order > 0 in this cycle
    corpPc,         \* the step of runCorpCycle in progress
    cityIdx,        \* position of the step's loop over the divisions and cities
    \* ---- ipvgo.js: playGo
    goBoard,        \* ns.go.getBoardState(): point -> "X", "O", "." or "#"
    goValidMoves,   \* the points ns.go.analysis.getValidMoves() reported in this iteration
    goMove,         \* <<>>, or the <<x, y>> handed to ns.go.makeMove in this iteration
    goResult,       \* result?.type of the last makeMove / passTurn
    goPc,           \* position in playGo
    goTurns,        \* iterations of the do-while loop so far
    \* ---- ipvgo pattern matching: getAllNbyNPatterns
    pattern,        \* the N x N pattern handed to getAllNbyNPatterns
    rotations,      \* const rotations
    mirrored,       \* const mirrored
    patterns        \* the returned list

investVars == <<offer, round, corpFunds, revenue, expenses, lastCheck>>
acceptVars == <<acceptArgs, acceptResult>>

budgetVars == <<budgetArgs, budgetResult>>
exportVars == <<exportArgs, exportMax, dilution>>

supplyVars == <<supplyArgs, supplies, storedAfter>>

pmVars == <<homeFiles, keepRunning, includeDarknet, foundMissingProgram, pmPc, passes,
            notPurchased>>

dnVars == <<activeProbes, maxProbes, probeFile, probeRunning, serverStatus, dnPc,
            nearbyTodo>>

batchVars == <<operations, opState, tempFiles, results, returned>>

loopVars == <<script, loopPc, step, err, logged, sleepFor, cycles, goGameActive>>
corpVars == <<hasWarehouse, sellPrice, positiveBuys, corpPc, cityIdx>>
goVars == <<goBoard, goValidMoves, goMove, goResult, goPc, goTurns>>
patVars == <<pattern, rotations, mirrored, patterns>>

vars == <<investVars, acceptVars, budgetVars, exportVars, supplyVars, pmVars, dnVars,
          batchVars, loopVars, corpVars, goVars, patVars>>

Max(a, b) == IF a >= b THEN a ELSE b
Min(a, b) == IF a <= b THEN a ELSE b

(***************************************************************************)
(* Idle values and frames: a specification of one script keeps the         *)
(* variables of the other scripts at their idle values.                    *)
(***************************************************************************)
InvestIdle ==
    /\ offer = <<>> /\ round = 0 /\ corpFunds = 0 /\ revenue = 0 /\ expenses = 0
    /\ lastCheck = <<>>

AcceptIdle == acceptArgs = <<>> /\ acceptResult = <<>>

BudgetIdle == budgetArgs = <<>> /\ budgetResult = <<>>

ExportIdle == exportArgs = <<>> /\ exportMax = <<>> /\ dilution = <<>>

SupplyIdle == supplyArgs = <<>> /\ supplies = <<>> /\ storedAfter = <<>>

PmIdle ==
    /\ homeFiles = {} /\ keepRunning = FALSE /\ includeDarknet = FALSE
    /\ foundMissingProgram = FALSE /\ pmPc = "idle" /\ passes = 0 /\ notPurchased = {}

DnIdle ==
    /\ activeProbes = {} /\ maxProbes = 0 /\ probeFile = FALSE /\ probeRunning = <<>>
    /\ serverStatus = <<>> /\ dnPc = "idle" /\ nearbyTodo = {}

BatchIdle ==
    /\ operations = <<>> /\ opState = <<>> /\ tempFiles = <<>> /\ results = <<>>
    /\ returned = FALSE

LoopIdle ==
    /\ script = "none" /\ loopPc = "idle" /\ step = 0 /\ err = <<>> /\ logged = <<>>
    /\ sleepFor = 0 /\ cycles = 0 /\ goGameActive = FALSE

CorpIdle ==
    /\ hasWarehouse = <<>> /\ sellPrice = <<>> /\ positiveBuys = {} /\ corpPc = "idle"
    /\ cityIdx = 0

GoIdle ==
    /\ goBoard = <<>> /\ goValidMoves = {} /\ goMove = <<>> /\ goResult = "none"
    /\ goPc = "idle" /\ goTurns = 0

PatIdle == pattern = <<>> /\ rotations = <<>> /\ mirrored = <<>> /\ patterns = <<>>

OthersIdle(g) ==
    /\ (g = "invest" \/ InvestIdle)
    /\ (g = "accept" \/ AcceptIdle)
    /\ (g = "budget" \/ BudgetIdle)
    /\ (g = "export" \/ ExportIdle)
    /\ (g = "supply" \/ SupplyIdle)
    /\ (g = "pm" \/ PmIdle)
    /\ (g = "dn" \/ DnIdle)
    /\ (g = "batch" \/ BatchIdle)
    /\ (g = "loop" \/ LoopIdle)
    /\ (g = "corp" \/ CorpIdle)
    /\ (g = "go" \/ GoIdle)
    /\ (g = "pat" \/ PatIdle)

Frame(g) ==
    /\ (g = "invest" \/ UNCHANGED investVars)
    /\ (g = "accept" \/ UNCHANGED acceptVars)
    /\ (g = "budget" \/ UNCHANGED budgetVars)
    /\ (g = "export" \/ UNCHANGED exportVars)
    /\ (g = "supply" \/ UNCHANGED supplyVars)
    /\ (g = "pm" \/ UNCHANGED pmVars)
    /\ (g = "dn" \/ UNCHANGED dnVars)
    /\ (g = "batch" \/ UNCHANGED batchVars)
    /\ (g = "loop" \/ UNCHANGED loopVars)
    /\ (g = "corp" \/ UNCHANGED corpVars)
    /\ (g = "go" \/ UNCHANGED goVars)
    /\ (g = "pat" \/ UNCHANGED patVars)

(***************************************************************************)
(* INVESTMENT  (corp-helpers.js 515-560, corporation.js 959-974)           *)
(* Money is in millions of dollars: 500e6 -> 500, 50e9 -> 50000.           *)
(***************************************************************************)
TargetRound == 4

\* corp-helpers.js getMinimumInvestmentOffer: minimums[round] || 0
getMinimumInvestmentOffer(r) ==
    CASE r = 1 -> 500
      [] r = 2 -> 2000
      [] r = 3 -> 5000
      [] r = 4 -> 50000
      [] OTHER -> 0

\* Mutant: the emergency branch (currentFunds < 0) is missing.
shouldAcceptInvestment_NoEmergency(o, r, customMinimum, currentFunds) ==
    IF o = <<>> \/ o[1].funds <= 0 THEN FALSE
    ELSE LET minimum == IF customMinimum > 0 THEN customMinimum
                        ELSE getMinimumInvestmentOffer(r)
         IN  o[1].funds >= minimum

\* corp-helpers.js shouldAcceptInvestment(offer, round, customMinimum = 0, currentFunds = null)
shouldAcceptInvestment(o, r, customMinimum, currentFunds) ==
    IF o = <<>> \/ o[1].funds <= 0 THEN FALSE
    ELSE IF currentFunds # <<>> /\ currentFunds[1] < 0 THEN TRUE
    ELSE LET minimum == IF customMinimum > 0 THEN customMinimum
                        ELSE getMinimumInvestmentOffer(r)
         IN  o[1].funds >= minimum

\* Values the game can report.
OfferFundsSet == {-5, 0, 1, 499, 500, 2000, 5000, 50000}
Offers == {<<>>} \cup {<<[funds |-> f, shares |-> 100]>> : f \in OfferFundsSet}
FundsSet == {-1000, -1, 0, 700}
RevenueSet == {0, 8}
ExpensesSet == {3}
CustomMinimumSet == {0, 1, 600, 60000}
Rounds == 1..TargetRound

InvestInit ==
    /\ OthersIdle("invest")
    /\ offer \in Offers
    /\ round \in Rounds
    /\ corpFunds \in FundsSet
    /\ revenue \in RevenueSet
    /\ expenses \in ExpensesSet
    /\ lastCheck = <<>>

\* corporation.js checkInvestment, reached from runCorpCycle when
\* options['auto-invest'] && state.round < options['target-round'].
checkInvestment ==
    /\ lastCheck = <<>>
    /\ round < TargetRound
    /\ LET accept == shouldAcceptInvestment(offer, round, 0, <<corpFunds>>)
       IN  /\ lastCheck' = <<[offer |-> offer, round |-> round, funds |-> corpFunds,
                              revenue |-> revenue, expenses |-> expenses,
                              accepted |-> accept]>>
           /\ round' = IF accept THEN round + 1 ELSE round
           \* acceptInvestmentOffer(): the game withdraws the accepted offer
           /\ offer' = IF accept THEN <<>> ELSE offer
    /\ UNCHANGED <<corpFunds, revenue, expenses>>
    /\ Frame("invest")

\* The game moves on before the next cycle: a new offer, new funds, new rates.
GameTick ==
    /\ offer' \in Offers
    /\ corpFunds' \in FundsSet
    /\ revenue' \in RevenueSet
    /\ expenses' \in ExpensesSet
    /\ lastCheck' = <<>>
    /\ UNCHANGED round
    /\ Frame("invest")

InvestNext == checkInvestment \/ GameTick

SpecInvest == InvestInit /\ [][InvestNext]_vars

\* shouldAcceptInvestment as a function of its four arguments, each drawn freely.
AcceptInit ==
    /\ OthersIdle("accept")
    /\ acceptArgs \in [offer : Offers, round : Rounds, customMinimum : CustomMinimumSet,
                        currentFunds : {<<>>} \cup {<<f>> : f \in FundsSet}]
    /\ acceptResult = <<>>

CallShouldAccept ==
    /\ acceptResult = <<>>
    /\ acceptResult' = <<shouldAcceptInvestment(acceptArgs.offer, acceptArgs.round,
                                                acceptArgs.customMinimum,
                                                acceptArgs.currentFunds)>>
    /\ UNCHANGED acceptArgs
    /\ Frame("accept")

SpecAccept == AcceptInit /\ [][CallShouldAccept]_vars

\* C2: with negative current funds shouldAcceptInvestment returns TRUE exactly for
\* the offers that exist and have funds > 0, whatever the round and customMinimum.
C2_EmergencyAccept ==
    (acceptResult # <<>> /\ acceptArgs.currentFunds # <<>>
                         /\ acceptArgs.currentFunds[1] < 0) =>
        (acceptResult[1] <=> (acceptArgs.offer # <<>> /\ acceptArgs.offer[1].funds > 0))

\* C2 witness: funds negative, a positive offer below both the round minimum and the
\* custom minimum, accepted.
C2_Witness ==
    /\ acceptResult = <<TRUE>>
    /\ acceptArgs.currentFunds = <<-1>>
    /\ acceptArgs.offer # <<>>
    /\ acceptArgs.offer[1].funds = 1
    /\ acceptArgs.round = 4
    /\ acceptArgs.customMinimum = 60000

\* C3 (as claimed): the decision of checkInvestment follows the profit
\* (revenue - expenses) - an offer is accepted only when the corporation is
\* profitable - and it is the same for every positive offer amount, so it does not
\* rest on comparing offer.funds with the fixed minimum of the round.
C3_ProfitNotThreshold ==
    lastCheck # <<>> =>
        LET k == lastCheck[1]
        IN  /\ k.accepted => k.revenue - k.expenses > 0
            /\ (k.offer # <<>> /\ k.offer[1].funds > 0) =>
                  \A f \in {g \in OfferFundsSet : g > 0} :
                      shouldAcceptInvestment(<<[funds |-> f, shares |-> 100]>>,
                                             k.round, 0, <<k.funds>>) = k.accepted

(***************************************************************************)
(* INDUSTRY DATA  (corp-helpers.js 16-83)                                  *)
(* Material sizes are in thousandths (0.05 -> 50), input ratios in tenths  *)
(* (0.5 -> 5), so that every product below is an exact integer.            *)
(***************************************************************************)
BoostMaterials == {"Real Estate", "Hardware", "Robots", "AI Cores"}

INDUSTRIES ==
    [Agriculture |-> [inputMaterials  |-> [Water |-> 5, Chemicals |-> 2],
                      outputMaterials |-> {"Plants", "Food"}],
     Chemical    |-> [inputMaterials  |-> [Plants |-> 10, Water |-> 5],
                      outputMaterials |-> {"Chemicals"}],
     Tobacco     |-> [inputMaterials  |-> [Plants |-> 10],
                      outputMaterials |-> {}],
     Water       |-> [inputMaterials  |-> [Hardware |-> 1],
                      outputMaterials |-> {"Water"}]]

KnownIndustries == DOMAIN INDUSTRIES

MATERIAL_SIZES ==
    [m \in {"Real Estate", "Hardware", "Robots", "AI Cores", "Water", "Plants",
            "Food", "Chemicals", "Ore", "Minerals", "Metal", "Drugs"} |->
        CASE m = "Real Estate" -> 5
          [] m = "Hardware"    -> 60
          [] m = "Robots"      -> 500
          [] m = "AI Cores"    -> 100
          [] m = "Water"       -> 50
          [] m = "Plants"      -> 50
          [] m = "Food"        -> 30
          [] m = "Chemicals"   -> 50
          [] m = "Ore"         -> 10
          [] m = "Minerals"    -> 40
          [] m = "Metal"       -> 100
          [] m = "Drugs"       -> 20]

SECONDS_PER_MARKET_CYCLE == 10

RECURSIVE SumOver(_, _)
\* sum of f[x] over the finite set S (the code's "for ... +=" loops)
SumOver(f, S) ==
    IF S = {} THEN 0
    ELSE LET x == CHOOSE y \in S : TRUE IN f[x] + SumOver(f, S \ {x})

(***************************************************************************)
(* WAREHOUSE SPACE BUDGET  (corp-helpers.js 109-154)                       *)
(* Every returned space is in 1/100000 of a warehouse unit:                *)
(*   size (1/1000) * ratio (1/10) * production   is in 1/10000,            *)
(*   the factor 0.9 is taken as 9/10.                                      *)
(***************************************************************************)
calculateWarehouseSpaceBudget(industryType, warehouseSize, productionRate) ==
    IF industryType \notin KnownIndustries THEN <<>>
    ELSE
    LET industry == INDUSTRIES[industryType]
        cycleProduction == productionRate * SECONDS_PER_MARKET_CYCLE
        inMats == DOMAIN industry.inputMaterials
        \* 1/10000
        inputSpacePerCycle ==
            SumOver([m \in inMats |->
                       MATERIAL_SIZES[m] * industry.inputMaterials[m] * cycleProduction],
                    inMats)
        outputSpacePerCycle ==
            SumOver([m \in industry.outputMaterials |->
                       MATERIAL_SIZES[m] * 10 * cycleProduction],
                    industry.outputMaterials)
        netSpaceChange == outputSpacePerCycle - inputSpacePerCycle
        productionBuffer == Max(0, netSpaceChange * 3)
        inputBuffer == inputSpacePerCycle * 2
        reservedForProduction == productionBuffer + inputBuffer
        \* 1/100000
        boostSpace == Max(0, (warehouseSize * 10000 - reservedForProduction) * 9)
    IN  <<[warehouseSize    |-> warehouseSize * 100000,
           boostSpace       |-> boostSpace,
           inputBuffer      |-> inputBuffer * 10,
           productionBuffer |-> productionBuffer * 10]>>

WarehouseSizes == {0, 10, 20, 21, 50, 100, 150, 1000}
ProductionRates == {0, 1, 5, 10, 40}

BudgetInit ==
    /\ OthersIdle("budget")
    /\ budgetArgs \in [industryType : KnownIndustries \cup {"Mining"},
                       warehouseSize : WarehouseSizes,
                       productionRate : ProductionRates]
    /\ budgetResult = <<>>

CallBudget ==
    /\ budgetResult = <<>>
    /\ budgetResult' = <<calculateWarehouseSpaceBudget(budgetArgs.industryType,
                                                       budgetArgs.warehouseSize,
                                                       budgetArgs.productionRate)>>
    /\ UNCHANGED budgetArgs
    /\ Frame("budget")

SpecBudget == BudgetInit /\ [][CallBudget]_vars

\* C4 (as claimed): for every known industry, warehouseSize >= 0 and
\* productionRate >= 0 the budget has boostSpace >= 0 and
\* boostSpace + inputBuffer + productionBuffer <= warehouseSize.
C4_BudgetFitsWarehouse ==
    (budgetResult # <<>> /\ budgetArgs.industryType \in KnownIndustries) =>
        LET b == budgetResult[1][1]
        IN  /\ b.boostSpace >= 0
            /\ b.boostSpace + b.inputBuffer + b.productionBuffer <= b.warehouseSize

(***************************************************************************)
(* EXPORT DILUTION  (corp-helpers.js 744-759, 879-896)                     *)
(* Qualities are in hundredths (0.1 -> 10).  A quotient is kept as an      *)
(* exact fraction [num, den] with den > 0; Infinity is [inf |-> TRUE].     *)
(***************************************************************************)
FracGeq(f, n) == f.num >= n * f.den
FracLess(f, n) == f.num < n * f.den

checkExportDilution(destQuality, destStored, srcQuality, srcAmount) ==
    IF destStored = 0
    THEN [wouldDilute |-> FALSE,
          newQuality  |-> [num |-> srcQuality, den |-> 1]]
    ELSE LET num == destQuality * destStored + srcQuality * srcAmount
             den == destStored + srcAmount
             \* Math.max(0.1, num / den), 0.1 being 10 hundredths
             newQuality == IF num >= 10 * den THEN [num |-> num, den |-> den]
                           ELSE [num |-> 10, den |-> 1]
         IN  [wouldDilute |-> srcQuality < destQuality,
              newQuality  |-> newQuality]

calculateMaxExportWithoutDilution(destQuality, destStored, srcQuality, minQuality) ==
    IF srcQuality >= minQuality THEN [inf |-> TRUE, num |-> 0, den |-> 1]
    ELSE IF destQuality <= minQuality THEN [inf |-> FALSE, num |-> 0, den |-> 1]
    ELSE [inf |-> FALSE,
          num |-> destStored * (destQuality - minQuality),
          den |-> minQuality - srcQuality]

\* amount <= max, for a returned max
AtMost(amount, max) == max.inf \/ amount * max.den <= max.num

Qualities == {0, 5, 10, 50, 100, 250}
StoredAmounts == {0, 1, 4, 10}
MaxAmount == 12
Amounts == 0..MaxAmount

ExportInit ==
    /\ OthersIdle("export")
    /\ exportArgs \in [destQuality : Qualities, destStored : StoredAmounts,
                       srcQuality : Qualities, minQuality : Qualities]
    /\ exportMax = <<>>
    /\ dilution = <<>>

CallMaxExport ==
    /\ exportMax = <<>>
    /\ exportMax' = <<calculateMaxExportWithoutDilution(
                          exportArgs.destQuality, exportArgs.destStored,
                          exportArgs.srcQuality, exportArgs.minQuality)>>
    /\ UNCHANGED <<exportArgs, dilution>>
    /\ Frame("export")

CallCheckDilution ==
    /\ exportMax # <<>>
    /\ dilution = <<>>
    /\ \E a \in Amounts :
          dilution' = <<[amount |-> a,
                         result |-> checkExportDilution(
                                        exportArgs.destQuality, exportArgs.destStored,
                                        exportArgs.srcQuality, a)]>>
    /\ UNCHANGED <<exportArgs, exportMax>>
    /\ Frame("export")

ExportNext == CallMaxExport \/ CallCheckDilution

SpecExport == ExportInit /\ [][ExportNext]_vars

\* C10 (as claimed): for srcQuality < minQuality < destQuality and destStored > 0,
\* every amount up to the returned maximum keeps newQuality >= minQuality and every
\* larger amount gives newQuality < minQuality.
C10_MaxExportIsMaximum ==
    (/\ dilution # <<>>
     /\ exportArgs.srcQuality < exportArgs.minQuality
     /\ exportArgs.minQuality < exportArgs.destQuality
     /\ exportArgs.destStored > 0) =>
        LET d == dilution[1]
        IN  IF AtMost(d.amount, exportMax[1])
            THEN FracGeq(d.result.newQuality, exportArgs.minQuality)
            ELSE FracLess(d.result.newQuality, exportArgs.minQuality)

(***************************************************************************)
(* SMART SUPPLY  (corp-helpers.js 345-386, corporation.js 440-451)         *)
(* Stored amounts are whole units; spaces are in thousandths of a          *)
(* warehouse unit; the target utilization is in percent (0.7 -> 70).       *)
(* Quotients are exact fractions [num, den], den > 0, in lowest terms.     *)
(***************************************************************************)
RECURSIVE GCD(_, _)
GCD(a, b) == IF b = 0 THEN a ELSE GCD(b, a % b)

Norm(f) ==
    LET g == GCD(IF f.num < 0 THEN -f.num ELSE f.num, f.den)
    IN  [num |-> f.num \div g, den |-> f.den \div g]

Frac(n) == [num |-> n, den |-> 1]
FracAdd(a, b) == Norm([num |-> a.num * b.den + b.num * a.den, den |-> a.den * b.den])
FracMul(a, n) == Norm([num |-> a.num * n, den |-> a.den])
FracLeq(a, b) == a.num * b.den <= b.num * a.den
FracPos(a) == a.num > 0

RECURSIVE FracSum(_, _)
FracSum(f, S) ==
    IF S = {} THEN Frac(0)
    ELSE LET x == CHOOSE y \in S : TRUE IN FracAdd(f[x], FracSum(f, S \ {x}))

\* materials[mat]?.stored || 0
StoredOf(materials, mat) == IF mat \in DOMAIN materials THEN materials[mat] ELSE 0

\* corp-helpers.js calculateSmartSupplyQuantities(divData, warehouse, materials,
\* targetUtilization): amount per second for every input material.
calculateSmartSupplyQuantities(type, size, materials, targetUtilization) ==
    IF type \notin KnownIndustries THEN <<>>
    ELSE
    LET industry == INDUSTRIES[type]
        inMats == DOMAIN industry.inputMaterials
        \* thousandths
        boostSpace == SumOver([m \in BoostMaterials |->
                                 StoredOf(materials, m) * MATERIAL_SIZES[m]],
                              BoostMaterials)
        targetSpace == size * 10 * targetUtilization
        inputBudget == Max(0, targetSpace - boostSpace)
        totalInputRatio == SumOver(industry.inputMaterials, inMats)
    IN  [m \in inMats |->
            \* targetQty = (inputBudget * ratio / totalInputRatio) / size
            \* deficit   = max(0, targetQty - currentStored);  result = deficit / 10
            LET deficitNum == Max(0, inputBudget * industry.inputMaterials[m]
                                     - StoredOf(materials, m) * MATERIAL_SIZES[m]
                                       * totalInputRatio)
            IN  Norm([num |-> deficitNum,
                      den |-> totalInputRatio * MATERIAL_SIZES[m]
                              * SECONDS_PER_MARKET_CYCLE])]

\* Space (thousandths, exact) taken by the boost and input materials of a division,
\* every material counted once; q gives the stored units as fractions.
SpaceTaken(type, q) ==
    LET mats == BoostMaterials \cup DOMAIN INDUSTRIES[type].inputMaterials
    IN  FracSum([m \in mats |->
                    FracMul(IF m \in DOMAIN q THEN q[m] ELSE Frac(0), MATERIAL_SIZES[m])],
                mats)

SupplySizes == {100, 200}
TargetUtilizations == {50, 70}
InputStored == {0, 400, 1300}
BoostStored ==
    {[m \in BoostMaterials |-> 0],
     [m \in BoostMaterials |-> IF m = "Real Estate" THEN 2000 ELSE 0],
     [m \in BoostMaterials |-> IF m = "Hardware" THEN 500 ELSE 0],
     [m \in BoostMaterials |-> IF m = "Robots" THEN 150 ELSE 10]}

\* the materials object built by manageWarehouses: the boost materials and the
\* division's input materials
MaterialsOf(type, boost, inputs) ==
    [m \in BoostMaterials \cup DOMAIN INDUSTRIES[type].inputMaterials |->
        IF m \in DOMAIN INDUSTRIES[type].inputMaterials /\ m \notin BoostMaterials
        THEN inputs[m] ELSE boost[m]]

SupplyInit ==
    /\ OthersIdle("supply")
    /\ \E type \in KnownIndustries, boost \in BoostStored :
       \E inputs \in [DOMAIN INDUSTRIES[type].inputMaterials -> InputStored] :
          supplyArgs \in [type : {type}, size : SupplySizes,
                          stored : {MaterialsOf(type, boost, inputs)},
                          targetUtilization : TargetUtilizations]
    /\ supplies = <<>>
    /\ storedAfter = <<>>

\* corporation.js manageWarehouses 442: the call of calculateSmartSupplyQuantities
CallSmartSupply ==
    /\ supplies = <<>>
    /\ supplies' = <<calculateSmartSupplyQuantities(supplyArgs.type, supplyArgs.size,
                                                    supplyArgs.stored,
                                                    supplyArgs.targetUtilization)>>
    /\ UNCHANGED <<supplyArgs, storedAfter>>
    /\ Frame("supply")

\* buyMaterial(amount) in force for one market cycle of SECONDS_PER_MARKET_CYCLE
\* seconds: the game adds amount * 10 units of every input material.
MarketCycle ==
    /\ supplies # <<>>
    /\ storedAfter = <<>>
    /\ storedAfter' =
         <<[m \in DOMAIN supplyArgs.stored |->
              IF m \in DOMAIN supplies[1]
              THEN FracAdd(Frac(supplyArgs.stored[m]),
                           FracMul(supplies[1][m], SECONDS_PER_MARKET_CYCLE))
              ELSE Frac(supplyArgs.stored[m])]>>
    /\ UNCHANGED <<supplyArgs, supplies>>
    /\ Frame("supply")

SupplyNext == CallSmartSupply \/ MarketCycle

SpecSupply == SupplyInit /\ [][SupplyNext]_vars

\* the target space warehouse.size * targetUtilization, in thousandths
TargetSpace == Frac(supplyArgs.size * 10 * supplyArgs.targetUtilization)

corePrograms == {"BruteSSH.exe", "FTPCrack.exe", "relaySMTP.exe", "HTTPWorm.exe",
                 "SQLInject.exe"}
darknetPrograms == {"DarkscapeNavigator.exe"}

programNames == IF includeDarknet THEN corePrograms \cup darknetPrograms ELSE corePrograms

\* the most passes the model follows
MaxPasses == 3

\* Mutant: foundMissingProgram is not reset at the top of the do-while body.
FoundAfterPass_NoReset(before, failed, keep) == before \/ (failed # {} /\ keep)

\* The value of foundMissingProgram at the end of one pass (lines 22-31): reset to
\* false, then set when a purchase failed and the script runs continuously.
FoundAfterPass(before, failed, keep) == failed # {} /\ keep

PmInit ==
    /\ OthersIdle("pm")
    /\ homeFiles \in SUBSET (corePrograms \cup darknetPrograms)
    /\ keepRunning \in BOOLEAN
    /\ includeDarknet \in BOOLEAN
    /\ foundMissingProgram = FALSE
    /\ pmPc = "pass"
    /\ passes = 0
    /\ notPurchased = {}

\* One pass of the do-while body, lines 22-33.  The for loop has no await: it runs
\* as one step.  purchaseProgram succeeds for the programs in bought (the player
\* can afford them) and returns false for the other missing ones.
Pass ==
    /\ pmPc = "pass"
    /\ passes < MaxPasses
    /\ LET missing == {prog \in programNames : prog \notin homeFiles}
       IN  \E bought \in SUBSET missing :
             LET found == FoundAfterPass(foundMissingProgram, missing \ bought, keepRunning)
             IN  /\ homeFiles' = homeFiles \cup bought
                 /\ notPurchased' = missing \ bought
                 /\ foundMissingProgram' = found
                 /\ pmPc' = IF keepRunning /\ found THEN "sleep" ELSE "done"
    /\ passes' = passes + 1
    /\ UNCHANGED <<keepRunning, includeDarknet>>
    /\ Frame("pm")

\* ns.sleep(interval) returns, the while condition (which held) starts the next pass
Wake ==
    /\ pmPc = "sleep"
    /\ pmPc' = "pass"
    /\ UNCHANGED <<homeFiles, keepRunning, includeDarknet, foundMissingProgram, passes,
                   notPurchased>>
    /\ Frame("pm")

\* while the script sleeps the player obtains a program by other means
PlayerGetsProgram ==
    /\ pmPc = "sleep"
    /\ \E prog \in (corePrograms \cup darknetPrograms) \ homeFiles :
          homeFiles' = homeFiles \cup {prog}
    /\ UNCHANGED <<keepRunning, includeDarknet, foundMissingProgram, pmPc, passes,
                   notPurchased>>
    /\ Frame("pm")

PmNext == Pass \/ Wake \/ PlayerGetsProgram

SpecPm == PmInit /\ [][PmNext]_vars

\* C9: after a pass the script sleeps for another pass exactly when it runs with -c
\* and some listed program was missing and could not be purchased; otherwise it has
\* terminated: with -c only once every listed program is on home (owned before or
\* purchased), without -c after exactly one pass.
C9_NaturalDeath ==
    /\ pmPc = "sleep" => (keepRunning /\ notPurchased # {})
    /\ (pmPc = "done" /\ keepRunning) =>
            (notPurchased = {} /\ programNames \subseteq homeFiles)
    /\ (pmPc = "done" /\ ~keepRunning) => passes = 1
    /\ (passes > 0 /\ pmPc = "pass") => (keepRunning /\ notPurchased # {})

\* C9 witness: run with -c, a first pass left a program unbought, a later pass bought
\* the rest and the script ended.
C9_Witness ==
    /\ keepRunning
    /\ pmPc = "done"
    /\ passes = 2
    /\ programNames \subseteq homeFiles

(***************************************************************************)
(* DARKNET ORCHESTRATOR  (darknet.js 53-62, 145-209, 333-383, 433-451)     *)
(* The option max-probes (default 10) is drawn from 1..MaxProbesOption and *)
(* the darknet has the hosts of DarknetHosts.                              *)
(***************************************************************************)
MaxProbesOption == 2
DarknetHosts == {"darkA", "darkB"}
AllHosts == DarknetHosts \cup {"home"}
Statuses == {"offline", "locked", "session", "admin"}

\* darknet.js deployProbe: the set state.activeProbes after the call; execOk says
\* that ns.exec returned a pid > 0.
deployProbe(active, hostname, execOk) ==
    IF hostname \in active THEN active
    ELSE IF Cardinality(active) >= maxProbes THEN active
    ELSE IF ~probeFile THEN active
    ELSE IF execOk THEN active \cup {hostname}
    ELSE active

\* darknet.js ensureHomeProbes: the set state.activeProbes after the call
ensureHomeProbes(active, execOk) ==
    LET hasHomeProbe == probeRunning["home"]
    IN  IF ~hasHomeProbe /\ probeFile /\ execOk THEN active \cup {"home"} ELSE active

\* darknet.js cleanupOrphanedProbes: the hosts removed are the non-home hosts that
\* are offline
cleanupOrphanedProbes(active) ==
    {h \in active : h = "home" \/ serverStatus[h] # "offline"}

DnInit ==
    /\ OthersIdle("dn")
    /\ activeProbes = {}
    /\ maxProbes \in 1..MaxProbesOption
    /\ probeFile \in BOOLEAN
    \* a probe may already run on home, left by an earlier run
    /\ probeRunning \in {[h \in AllHosts |-> h = "home" /\ b] : b \in BOOLEAN}
    /\ serverStatus \in [DarknetHosts -> Statuses]
    /\ dnPc = "ensureHome"
    /\ nearbyTodo = {}

\* orchestrateDarknet step 1
EnsureHomeProbes ==
    /\ dnPc = "ensureHome"
    /\ \E execOk \in BOOLEAN :
          /\ activeProbes' = ensureHomeProbes(activeProbes, execOk)
          /\ probeRunning' = IF ~probeRunning["home"] /\ probeFile /\ execOk
                             THEN [probeRunning EXCEPT !["home"] = TRUE]
                             ELSE probeRunning
    /\ dnPc' = "probe"
    /\ UNCHANGED <<maxProbes, probeFile, serverStatus, nearbyTodo>>
    /\ Frame("dn")

\* orchestrateDarknet step 2: ns.dnet.probe() lists the servers next to home
ProbeNearby ==
    /\ dnPc = "probe"
    /\ nearbyTodo' \in SUBSET DarknetHosts
    /\ dnPc' = "process"
    /\ UNCHANGED <<activeProbes, maxProbes, probeFile, probeRunning, serverStatus>>
    /\ Frame("dn")

\* processServer(hostname) for one server of the list.  An offline server is
\* skipped; with admin rights the probe is deployed; a locked server is
\* authenticated first (authOk) and the probe deployed on success; a server with a
\* session but no admin rights is left alone.
ProcessServer ==
    /\ dnPc = "process"
    /\ \E h \in nearbyTodo, authOk \in BOOLEAN, execOk \in BOOLEAN :
          LET st == serverStatus[h]
              deploy == st = "admin" \/ (st = "locked" /\ authOk)
              \* preventDuplicates: exec returns 0 when the probe already runs there
              started == execOk /\ ~probeRunning[h]
              after == IF deploy THEN deployProbe(activeProbes, h, started)
                       ELSE activeProbes
          IN  /\ activeProbes' = after
              /\ probeRunning' = IF after # activeProbes
                                 THEN [probeRunning EXCEPT ![h] = TRUE]
                                 ELSE probeRunning
              /\ serverStatus' = IF st = "locked" /\ authOk
                                 THEN [serverStatus EXCEPT ![h] = "admin"]
                                 ELSE serverStatus
              /\ nearbyTodo' = nearbyTodo \ {h}
    /\ UNCHANGED <<maxProbes, probeFile, dnPc>>
    /\ Frame("dn")

\* orchestrateDarknet steps 3 and 4 (manageStasisLinks does not touch the probes),
\* then main sleeps options.interval
CleanupOrphanedProbes ==
    /\ dnPc = "process"
    /\ nearbyTodo = {}
    /\ activeProbes' = cleanupOrphanedProbes(activeProbes)
    /\ dnPc' = "sleep"
    /\ UNCHANGED <<maxProbes, probeFile, probeRunning, serverStatus, nearbyTodo>>
    /\ Frame("dn")

\* an exception inside the cycle: main's catch logs it and the loop sleeps
DnCycleThrows ==
    /\ dnPc \in {"probe", "process"}
    /\ dnPc' = "sleep"
    /\ nearbyTodo' = {}
    /\ UNCHANGED <<activeProbes, maxProbes, probeFile, probeRunning, serverStatus>>
    /\ Frame("dn")

\* ns.sleep(options.interval) returns: the next cycle starts
DnNextCycle ==
    /\ dnPc = "sleep"
    /\ dnPc' = "ensureHome"
    /\ UNCHANGED <<activeProbes, maxProbes, probeFile, probeRunning, serverStatus,
                   nearbyTodo>>
    /\ Frame("dn")

\* a probe script ends (it finished, crashed or was killed)
ProbeExits ==
    /\ \E h \in AllHosts :
          /\ probeRunning[h]
          /\ probeRunning' = [probeRunning EXCEPT ![h] = FALSE]
    /\ UNCHANGED <<activeProbes, maxProbes, probeFile, serverStatus, dnPc, nearbyTodo>>
    /\ Frame("dn")

\* a darknet server goes offline (its scripts die) or comes back, locked again
ServerChanges ==
    /\ \E h \in DarknetHosts :
          IF serverStatus[h] = "offline"
          THEN /\ serverStatus' = [serverStatus EXCEPT ![h] = "locked"]
               /\ UNCHANGED probeRunning
          ELSE /\ serverStatus' = [serverStatus EXCEPT ![h] = "offline"]
               /\ probeRunning' = [probeRunning EXCEPT ![h] = FALSE]
    /\ UNCHANGED <<activeProbes, maxProbes, probeFile, dnPc, nearbyTodo>>
    /\ Frame("dn")

DnNext ==
    \/ EnsureHomeProbes \/ ProbeNearby \/ ProcessServer \/ CleanupOrphanedProbes
    \/ DnCycleThrows \/ DnNextCycle \/ ProbeExits \/ ServerChanges

SpecDarknet == DnInit /\ [][DnNext]_vars

\* C6 (as claimed): counting the probe on home, state.activeProbes never holds more
\* hosts than the max-probes option.
C6_AtMostMaxProbes == Cardinality(activeProbes) <= maxProbes

(***************************************************************************)
(* CORP-API BATCH READ  (corp-api.js, src/unnamed/part_000 241-308, 405-414)*)
(***************************************************************************)
\* the longest request list the model follows
MaxOps == 3

ReadNames == {"getCorporation", "getDivision", "getMaterial"}
ReadArgs(name) ==
    CASE name = "getCorporation" -> {<<>>}
      [] name = "getDivision"    -> {<<"Agriculture">>, <<"Chemical">>}
      [] name = "getMaterial"    -> {<<"Agriculture", "Aevum", "Water">>,
                                     <<"Agriculture", "Aevum", "Food">>}
ReadOps == UNION {{[name |-> n, args |-> a] : a \in ReadArgs(n)} : n \in ReadNames}

\* what ns.corporation.<name>(...args) returns: the data of exactly the thing read
ApiValue(name, args) == [of |-> name, for |-> args]

\* corp-api.js corpFile
corpFile(cmd) == <<"/Temp/corp-", cmd, ".txt">>

BatchInit ==
    /\ OthersIdle("batch")
    /\ \E n \in 1..MaxOps : operations \in [1..n -> ReadOps]
    \* operations.map(async ...) starts every corpApi[name](ns, ...args) call
    /\ opState = [i \in DOMAIN operations |-> "running"]
    /\ tempFiles = [n \in ReadNames |-> <<>>]
    /\ results = [n \in ReadNames |-> <<>>]
    /\ returned = FALSE

\* getNsDataThroughFile(ns, command, corpFile(name), args), first half: the temp
\* script runs the command with the call's own arguments and writes the value to
\* the file.
TempScriptWrites ==
    /\ \E i \in DOMAIN operations :
          /\ opState[i] = "running"
          /\ tempFiles' = [tempFiles EXCEPT ![operations[i].name] =
                              <<[file  |-> corpFile(operations[i].name),
                                 value |-> ApiValue(operations[i].name,
                                                    operations[i].args)]>>]
          /\ opState' = [opState EXCEPT ![i] = "written"]
    /\ UNCHANGED <<operations, results, returned>>
    /\ Frame("batch")

\* getNsDataThroughFile, second half: the caller reads the file back; then
\* corpBatchRead line 410 stores the value: results[name] = ...
ReadCompletes ==
    /\ \E i \in DOMAIN operations :
          /\ opState[i] = "written"
          /\ results' = [results EXCEPT ![operations[i].name] =
                            <<tempFiles[operations[i].name][1].value>>]
          /\ opState' = [opState EXCEPT ![i] = "done"]
    /\ UNCHANGED <<operations, tempFiles, returned>>
    /\ Frame("batch")

\* await Promise.all(promises); return results
BatchReturns ==
    /\ ~returned
    /\ \A i \in DOMAIN operations : opState[i] = "done"
    /\ returned' = TRUE
    /\ UNCHANGED <<operations, opState, tempFiles, results>>
    /\ Frame("batch")

BatchNext == TempScriptWrites \/ ReadCompletes \/ BatchReturns

SpecBatch == BatchInit /\ [][BatchNext]_vars

\* C8 (as claimed): for every operation of the request list the returned object
\* holds, under the operation's name, the value the game returns for that
\* operation called with its own arguments, whatever the order of completion.
C8_BatchResultsPerOperation ==
    returned =>
        \A i \in DOMAIN operations :
            results[operations[i].name] =
                <<ApiValue(operations[i].name, operations[i].args)>>

(***************************************************************************)
(* MAIN LOOPS  (corporation.js 71-78, darknet.js 53-61, ipvgo.js 80-95)    *)
(***************************************************************************)
Scripts == {"corporation", "darknet", "ipvgo"}

\* the awaited steps of one cycle, inside the try block
CycleSteps(s) ==
    CASE s = "corporation" ->
            <<"state.init", "maintainEmployees", "ensureSelling", "manageWarehouses",
              "updatePricing", "runRound", "checkInvestment">>
      [] s = "darknet" ->
            <<"state.refresh", "ensureHomeProbes", "processServers",
              "manageStasisLinks", "cleanupOrphanedProbes">>
      [] s = "ipvgo" -> <<"playGo or resetBoardState">>

\* what a cycle can throw: a string (the game's runtime error message), an Error
\* object (a TypeError of the script itself), another object (the game's
\* ScriptDeath-like values)
ErrKinds == {"string", "Error", "object"}

\* the argument of the ns.sleep that ends an iteration of the loop: 1000 in
\* corporation.js, options.interval (argsSchema default 5000) in darknet.js, the
\* constant interval = 1000 in ipvgo.js
SleepInterval(s) ==
    CASE s = "corporation" -> 1000
      [] s = "darknet"     -> 5000
      [] s = "ipvgo"       -> 1000

\* the most cycles the model follows
MaxCycles == 3

\* Mutant: the cycle is not wrapped in try/catch, the exception leaves main.
AfterThrow_NoCatch(s, kind) == "terminated"

\* Where control is after the cycle threw a value of the given kind: every loop
\* wraps the cycle in try { ... } catch (err) { log(...) }, whatever is thrown.
AfterThrow(s, kind) == "caught"

\* The catch block builds its message and logs it.  ipvgo.js builds
\* (err?.stack || '') + (typeof err === 'string' ? err : err.message ||
\* JSON.stringify(err)): reading err.message fails only for null and undefined,
\* which neither the game API nor the JavaScript runtime throws (they are not in
\* ErrKinds).  The other two scripts call getErrorInfo(err).
AfterCatch(s, kind) ==
    IF s = "ipvgo" /\ kind \in {"null", "undefined"} THEN "terminated" ELSE "sleep"

LoopInit ==
    /\ OthersIdle("loop")
    /\ script \in Scripts
    /\ loopPc = "cycle"
    /\ step = 0
    /\ err = <<>>
    /\ logged = <<>>
    /\ sleepFor = 0
    /\ cycles = 1
    \* ipvgo.js 61: ns.go.getBoardState().previousPlayer !== null
    /\ goGameActive \in (IF script = "ipvgo" THEN BOOLEAN ELSE {FALSE})

\* one awaited step of the cycle completes
CycleStep ==
    /\ loopPc = "cycle"
    /\ step < Len(CycleSteps(script))
    /\ step' = step + 1
    \* ipvgo.js 82-88: playGo ends with goGameActive = false, otherwise the board is
    \* reset and goGameActive = true
    /\ goGameActive' = IF script = "ipvgo" THEN ~goGameActive ELSE goGameActive
    /\ UNCHANGED <<script, loopPc, err, logged, sleepFor, cycles>>
    /\ Frame("loop")

\* the step in progress throws
CycleThrows ==
    /\ loopPc = "cycle"
    /\ step < Len(CycleSteps(script))
    /\ \E kind \in ErrKinds :
          /\ err' = <<kind>>
          /\ loopPc' = AfterThrow(script, kind)
    /\ UNCHANGED <<script, step, logged, sleepFor, cycles, goGameActive>>
    /\ Frame("loop")

\* the catch block logs the warning
CatchLogs ==
    /\ loopPc = "caught"
    /\ logged' = Append(logged, [cycle |-> cycles, kind |-> err[1]])
    /\ loopPc' = AfterCatch(script, err[1])
    /\ sleepFor' = IF AfterCatch(script, err[1]) = "sleep"
                   THEN SleepInterval(script) ELSE sleepFor
    /\ UNCHANGED <<script, step, err, cycles, goGameActive>>
    /\ Frame("loop")

\* the try block ends normally
CycleEnds ==
    /\ loopPc = "cycle"
    /\ step = Len(CycleSteps(script))
    /\ loopPc' = "sleep"
    /\ sleepFor' = SleepInterval(script)
    /\ UNCHANGED <<script, step, err, logged, cycles, goGameActive>>
    /\ Frame("loop")

\* ns.sleep returns and while (true) starts the next cycle
SleepReturns ==
    /\ loopPc = "sleep"
    /\ cycles < MaxCycles
    /\ loopPc' = "cycle"
    /\ step' = 0
    /\ err' = <<>>
    /\ cycles' = cycles + 1
    /\ sleepFor' = 0
    /\ UNCHANGED <<script, logged, goGameActive>>
    /\ Frame("loop")

LoopNext == CycleStep \/ CycleThrows \/ CatchLogs \/ CycleEnds \/ SleepReturns

SpecLoops == LoopInit /\ [][LoopNext]_vars

DivisionCities ==
    <<<<"Agriculture", "Aevum">>, <<"Agriculture", "Sector-12">>, <<"Chemical", "Aevum">>>>

\* industry.outputMaterials, in the order of the array
OutputList(type) ==
    CASE type = "Agriculture" -> <<"Plants", "Food">>
      [] type = "Chemical"    -> <<"Chemicals">>
      [] type = "Tobacco"     -> <<>>
      [] type = "Water"       -> <<"Water">>

\* ensureSelling line 334: selling is not configured yet.  desiredSellPrice is "0"
\* (no sell order), "MP", or a price set by updatePricing
NotConfigured(price) == price = "0"

\* checkWarehouseHealth, utilization in percent
isSafe(util) == util < 90
isHealthy(util) == util < 70
isCritical(util) == util > 95
Utilizations == {50, 80, 92, 97}

\* ensureSelling, the body of the try block for one city (lines 328-337): the sell
\* prices of the city after the loop over the output materials handled the first
\* n of them; n < Len(outs) when the call for material n + 1 threw and the empty
\* catch ended the city's turn.
SellAfterEnsure(prices, outs, n) ==
    [m \in DOMAIN prices |->
        IF \E i \in 1..n : outs[i] = m /\ NotConfigured(prices[m]) THEN "MP"
        ELSE prices[m]]

\* manageWarehouses, lines 376-451: whether a buyMaterial order with amount > 0 is
\* issued for the city.  Nothing is bought when the warehouse is critical; boost
\* materials are bought when healthy and below the boost budget (boostRoom), input
\* materials when smart supply is on, the computed amount is > 0 (deficit) and
\* the warehouse is safe.
IssuesPositiveBuy(util, boostRoom, deficit) ==
    /\ ~isCritical(util)
    /\ (isHealthy(util) /\ boostRoom) \/ (deficit /\ isSafe(util))

OutputSet(d) == {OutputList(d)[i] : i \in DOMAIN OutputList(d)}

CorpInit ==
    /\ OthersIdle("corp")
    /\ hasWarehouse \in [{DivisionCities[i] : i \in DOMAIN DivisionCities} -> BOOLEAN]
    \* a city without a warehouse has no sell order; one with a warehouse may have
    \* been configured by an earlier run
    /\ sellPrice \in {sp \in [{DivisionCities[i] : i \in DOMAIN DivisionCities} ->
                                UNION {[OutputSet(d) -> {"0", "MP"}] :
                                          d \in {"Agriculture", "Chemical"}}] :
                        \A dc \in DOMAIN sp :
                           /\ DOMAIN sp[dc] = OutputSet(dc[1])
                           /\ (\A m \in DOMAIN sp[dc] : sp[dc][m] = sp[dc][OutputList(dc[1])[1]])
                           /\ (~hasWarehouse[dc] => \A m \in DOMAIN sp[dc] : sp[dc][m] = "0")}
    /\ positiveBuys = {}
    /\ corpPc = "ensureSelling"
    /\ cityIdx = 1

\* ensureSelling for one city (runCorpCycle step 2)
EnsureSellingCity ==
    /\ corpPc = "ensureSelling"
    /\ cityIdx <= Len(DivisionCities)
    /\ LET dc == DivisionCities[cityIdx]
           outs == OutputList(dc[1])
       IN  IF ~hasWarehouse[dc] THEN UNCHANGED sellPrice
           ELSE \E n \in 0..Len(outs) :
                   sellPrice' = [sellPrice EXCEPT ![dc] = SellAfterEnsure(@, outs, n)]
    /\ cityIdx' = cityIdx + 1
    /\ UNCHANGED <<hasWarehouse, positiveBuys, corpPc>>
    /\ Frame("corp")

\* ensureSelling returns, manageWarehouses starts (runCorpCycle step 3)
StartManageWarehouses ==
    /\ corpPc = "ensureSelling"
    /\ cityIdx > Len(DivisionCities)
    /\ corpPc' = "manageWarehouses"
    /\ cityIdx' = 1
    /\ UNCHANGED <<hasWarehouse, sellPrice, positiveBuys>>
    /\ Frame("corp")

\* manageWarehouses for one city: the game reports the warehouse's utilization and
\* stocks; the try block may also be cut short by a failing call (no order then)
ManageWarehouseCity ==
    /\ corpPc = "manageWarehouses"
    /\ cityIdx <= Len(DivisionCities)
    /\ LET dc == DivisionCities[cityIdx]
       IN  \E util \in Utilizations, boostRoom \in BOOLEAN, deficit \in BOOLEAN,
              callsOk \in BOOLEAN :
              positiveBuys' =
                 IF hasWarehouse[dc] /\ callsOk /\ IssuesPositiveBuy(util, boostRoom, deficit)
                 THEN positiveBuys \cup {dc} ELSE positiveBuys
    /\ cityIdx' = cityIdx + 1
    /\ UNCHANGED <<hasWarehouse, sellPrice, corpPc>>
    /\ Frame("corp")

\* manageWarehouses returns (after stopping the boost purchases); updatePricing
\* (runCorpCycle step 4, option market-ta) prices the outputs that are in stock
UpdatePricing ==
    /\ corpPc = "manageWarehouses"
    /\ cityIdx > Len(DivisionCities)
    /\ \E priced \in SUBSET {dc \in DOMAIN hasWarehouse : hasWarehouse[dc]} :
          sellPrice' = [dc \in DOMAIN sellPrice |->
                           IF dc \in priced
                           THEN [m \in DOMAIN sellPrice[dc] |-> "price"]
                           ELSE sellPrice[dc]]
    /\ corpPc' = "runRound"
    /\ UNCHANGED <<hasWarehouse, positiveBuys, cityIdx>>
    /\ Frame("corp")

\* runRound1/2/3Plus (runCorpCycle step 5): a warehouse may be purchased in a city
\* that has none; then the cycle ends and main sleeps
RunRound ==
    /\ corpPc = "runRound"
    /\ \/ UNCHANGED hasWarehouse
       \/ \E dc \in DOMAIN hasWarehouse :
             /\ ~hasWarehouse[dc]
             /\ hasWarehouse' = [hasWarehouse EXCEPT ![dc] = TRUE]
    /\ corpPc' = "sleep"
    /\ UNCHANGED <<sellPrice, positiveBuys, cityIdx>>
    /\ Frame("corp")

\* a call outside the per-city try blocks throws: runCorpCycle ends, main's catch
\* logs it and the loop sleeps
CorpCycleThrows ==
    /\ corpPc \in {"ensureSelling", "manageWarehouses", "runRound"}
    /\ corpPc' = "sleep"
    /\ UNCHANGED <<hasWarehouse, sellPrice, positiveBuys, cityIdx>>
    /\ Frame("corp")

\* ns.sleep(1000) returns: the next runCorpCycle
CorpNextCycle ==
    /\ corpPc = "sleep"
    /\ corpPc' = "ensureSelling"
    /\ cityIdx' = 1
    /\ positiveBuys' = {}
    /\ UNCHANGED <<hasWarehouse, sellPrice>>
    /\ Frame("corp")

CorpNext ==
    \/ EnsureSellingCity \/ StartManageWarehouses \/ ManageWarehouseCity
    \/ UpdatePricing \/ RunRound \/ CorpCycleThrows \/ CorpNextCycle

SpecCorp == CorpInit /\ [][CorpNext]_vars

\* C1 (as claimed): in every cycle, a city that was given a buyMaterial order with a
\* positive amount has a sell order set for every output material of its division.
C1_SellBeforeBuy ==
    \A dc \in positiveBuys :
        \A m \in DOMAIN sellPrice[dc] : ~NotConfigured(sellPrice[dc][m])

(***************************************************************************)
(* IPVGO: playGo  (ipvgo.js 101-130, 136-157, 162-187, 192-199)            *)
(* The board has 3 x 3 points; the game (not part of the                   *)
(* repository) answers getBoardState, getValidMoves, makeMove, passTurn.   *)
(***************************************************************************)
\* the most iterations of playGo's loop the model follows
MaxTurns == 2

\* the coordinates of the model's board (3 x 3), and its points
Coords == {0, 1, 2}
Points == Coords \X Coords

\* x % 2 || y % 2
isNotReservedSpace(x, y) == x % 2 # 0 \/ y % 2 # 0

\* ipvgo.js getNeighbors: [north, east, south, west]; a point off the board reads
\* as undefined and is left out
getNeighbors(b, x, y) ==
    {b[q] : q \in {<<x + 1, y>>, <<x, y + 1>>, <<x - 1, y>>, <<x, y - 1>>} \cap Points}

\* Mutant: the reserved spaces are not left out.
RandomMoveOptions_NoReserve(b, valid) == {q \in Points : q \in valid}

\* ipvgo.js getRandomMove, moveOptions: the valid points that are not reserved
RandomMoveOptions(b, valid) ==
    {q \in Points : q \in valid /\ isNotReservedSpace(q[1], q[2])}

\* ipvgo.js getGrowMove, moveOptions: those that also touch a friendly stone
GrowMoveOptions(b, valid) ==
    {q \in Points : /\ q \in valid
                    /\ isNotReservedSpace(q[1], q[2])
                    /\ "X" \in getNeighbors(b, q[1], q[2])}

\* moveOptions[Math.floor(Math.random() * moveOptions.length)] ?? []: any of the
\* options, or the empty array when there is none
RandomPick(moveOptions) == IF moveOptions = {} THEN {<<>>} ELSE moveOptions

\* const [a, b] = pair: the i-th element, <<>> standing for undefined
Element(pair, i) == IF Len(pair) >= i THEN <<pair[i]>> ELSE <<>>

\* a ?? b
Coalesce(a, b) == IF a # <<>> THEN a ELSE b

\* playGo lines 108-112: x = growX ?? randX, y = growY ?? randY
SelectedX(grow, rand) == Coalesce(Element(grow, 1), Element(rand, 1))
SelectedY(grow, rand) == Coalesce(Element(grow, 2), Element(rand, 2))

EmptyPoints(b) == {q \in Points : b[q] = "."}

\* the boards a game starts from: all points empty, or with one dead node
StartBoards ==
    {[q \in Points |-> "."], [q \in Points |-> IF q = <<1, 1>> THEN "#" ELSE "."]}

\* what getValidMoves can report for a board: the empty points, without the points
\* the rules forbid (ko, suicide); the model follows up to MaxIllegal of them
MaxIllegal == 1
ValidMoveReports(b) ==
    {EmptyPoints(b) \ illegal :
        illegal \in {i \in SUBSET EmptyPoints(b) : Cardinality(i) <= MaxIllegal}}

GoInit ==
    /\ OthersIdle("go")
    /\ goBoard \in StartBoards
    /\ goValidMoves = {}
    /\ goMove = <<>>
    /\ goResult = "none"
    /\ goPc = "turn"
    /\ goTurns = 0

\* One iteration of the do-while body up to the call of makeMove or passTurn (lines
\* 105-120): no await separates reading the board from submitting the move.
PlayTurn ==
    /\ goPc = "turn"
    /\ goTurns < MaxTurns
    /\ \E valid \in ValidMoveReports(goBoard) :
       \E grow \in RandomPick(GrowMoveOptions(goBoard, valid)),
          rand \in RandomPick(RandomMoveOptions(goBoard, valid)) :
          LET x == SelectedX(grow, rand)
              y == SelectedY(grow, rand)
          IN  /\ goValidMoves' = valid
              /\ IF x = <<>>
                 THEN /\ goMove' = <<>>
                      /\ goPc' = "passTurn"
                      /\ UNCHANGED goBoard
                 ELSE /\ goMove' = <<x[1], y[1]>>
                      /\ goPc' = "makeMove"
                      \* the game puts the stone on a valid point and ignores any other
                      /\ goBoard' = IF <<x[1], y[1]>> \in valid
                                    THEN [goBoard EXCEPT ![<<x[1], y[1]>>] = "X"]
                                    ELSE goBoard
    /\ goTurns' = goTurns + 1
    /\ UNCHANGED goResult
    /\ Frame("go")

\* makeMove / passTurn resolves with the opponent's answer: a stone on an empty
\* point (which may capture one neighbouring stone of ours), a pass, or the end of
\* the game; then ns.sleep(100) and the while condition (lines 115-122)
OpponentAnswers ==
    /\ goPc \in {"makeMove", "passTurn"}
    /\ \/ \E q \in EmptyPoints(goBoard) :
          \E captured \in {{}} \cup
                {{c} : c \in {<<q[1] + 1, q[2]>>, <<q[1], q[2] + 1>>, <<q[1] - 1, q[2]>>,
                              <<q[1], q[2] - 1>>} \cap {p \in Points : goBoard[p] = "X"}} :
             /\ goBoard' = [p \in Points |->
                              IF p = q THEN "O" ELSE IF p \in captured THEN "." ELSE goBoard[p]]
             /\ goResult' = "move"
             /\ goPc' = "turn"
       \/ /\ goResult' \in {"pass", "gameOver"}
          /\ goPc' = "finalPass"
          /\ UNCHANGED goBoard
    /\ UNCHANGED <<goValidMoves, goMove, goTurns>>
    /\ Frame("go")

\* lines 124-128: ns.go.passTurn() ends the game, goGameActive = false
FinalPass ==
    /\ goPc = "finalPass"
    /\ goPc' = "done"
    /\ goResult' = "gameOver"
    /\ UNCHANGED <<goBoard, goValidMoves, goMove, goTurns>>
    /\ Frame("go")

GoNext == PlayTurn \/ OpponentAnswers \/ FinalPass

SpecGo == GoInit /\ [][GoNext]_vars

\* C11: every move submitted with makeMove is a point that getValidMoves reported
\* as valid for the board of that iteration, and it is not a reserved space (x and
\* y both even).
C11_MoveValidNotReserved ==
    goMove # <<>> =>
        /\ goMove \in goValidMoves
        /\ ~(goMove[1] % 2 = 0 /\ goMove[2] % 2 = 0)

\* C11 witness: a move found by getGrowMove (next to a friendly stone) is being
\* submitted after an earlier move of ours and an answer of the opponent.
C11_Witness ==
    /\ goPc = "makeMove"
    /\ goTurns = 2
    /\ goMove # <<>>
    /\ "X" \in getNeighbors([goBoard EXCEPT ![goMove] = "."], goMove[1], goMove[2])
    /\ \E q \in Points : goBoard[q] = "O"

(***************************************************************************)
(* GO PATTERNS  (src/unnamed/part_001 1864-2141)                           *)
(* A pattern of size N is an array of N rows, each a one-element array     *)
(* holding a string of N characters: pattern[r][0][c].  Here it is a       *)
(* record [size, cells] with cells[<<r, c>>] the character pattern[r][0][c]*)
(***************************************************************************)
PatternSizes == {3, 4, 5, 6, 7}

Cells(N) == (0..(N - 1)) \X (0..(N - 1))

\* rotate90Degrees3..7: row r of the result is the string of
\* pattern[N-1][0][r], pattern[N-2][0][r], ..., pattern[0][0][r]
rotate90Degrees(p) ==
    [size  |-> p.size,
     cells |-> [q \in Cells(p.size) |-> p.cells[<<p.size - 1 - q[2], q[1]>>]]]

\* verticalMirror3..7: [pattern[N-1], ..., pattern[0]]
verticalMirror(p) ==
    [size  |-> p.size,
     cells |-> [q \in Cells(p.size) |-> p.cells[<<p.size - 1 - q[1], q[2]>>]]]

\* horizontalMirror3..7: row r of the result is the string of pattern[r][0][N-1],
\* ..., pattern[r][0][0]; in horizontalMirror7 rows 5 and 6 begin with
\* pattern[4][0][6] (lines 2135 and 2138)
horizontalMirror(p) ==
    [size  |-> p.size,
     cells |-> [q \in Cells(p.size) |->
                  IF p.size = 7 /\ q[1] \in {5, 6} /\ q[2] = 0
                  THEN p.cells[<<4, 6>>]
                  ELSE p.cells[<<q[1], p.size - 1 - q[2]>>]]]

\* the characters of the model's patterns, and its patterns: every cell "." but one
\* or two marked cells
PatternInputs ==
    UNION {{[size |-> N, cells |-> [q \in Cells(N) |-> IF q = a THEN "X" ELSE "."]] :
                a \in Cells(N)}
           \cup
           {[size |-> N,
             cells |-> [q \in Cells(N) |-> IF q = <<0, 0>> THEN "O"
                                           ELSE IF q = a THEN "X" ELSE "."]] :
                a \in Cells(N) \ {<<0, 0>>}} : N \in PatternSizes}

PatInit ==
    /\ OthersIdle("pat")
    /\ pattern \in PatternInputs
    /\ rotations = <<>>
    /\ mirrored = <<>>
    /\ patterns = <<>>

\* getAllNbyNPatterns, const rotations = [...]
BuildRotations ==
    /\ rotations = <<>>
    /\ rotations' = <<pattern,
                      rotate90Degrees(pattern),
                      rotate90Degrees(rotate90Degrees(pattern)),
                      rotate90Degrees(rotate90Degrees(rotate90Degrees(pattern)))>>
    /\ UNCHANGED <<pattern, mirrored, patterns>>
    /\ Frame("pat")

\* const mirrored = [...rotations, ...rotations.map(verticalMirrorN)]
BuildMirrored ==
    /\ rotations # <<>>
    /\ mirrored = <<>>
    /\ mirrored' = rotations \o [i \in DOMAIN rotations |-> verticalMirror(rotations[i])]
    /\ UNCHANGED <<pattern, rotations, patterns>>
    /\ Frame("pat")

\* return [...mirrored, ...mirrored.map(horizontalMirrorN)]
ReturnPatterns ==
    /\ mirrored # <<>>
    /\ patterns = <<>>
    /\ patterns' = mirrored \o [i \in DOMAIN mirrored |-> horizontalMirror(mirrored[i])]
    /\ UNCHANGED <<pattern, rotations, mirrored>>
    /\ Frame("pat")

PatNext == BuildRotations \/ BuildMirrored \/ ReturnPatterns

SpecPatterns == PatInit /\ [][PatNext]_vars

\* The 8 symmetries of the N x N square as maps of positions: cell q of the image
\* is the input cell at Symmetry(N, k, q); k = 0..3 are the rotations by k * 90
\* degrees, k = 4..7 the same combined with a mirror.
Symmetry(N, k, q) ==
    LET n == N - 1
        r == q[1]
        c == q[2]
    IN  CASE k = 0 -> <<r, c>>
          [] k = 1 -> <<n - c, r>>
          [] k = 2 -> <<n - r, n - c>>
          [] k = 3 -> <<c, n - r>>
          [] k = 4 -> <<r, n - c>>
          [] k = 5 -> <<n - r, c>>
          [] k = 6 -> <<c, r>>
          [] k = 7 -> <<n - c, n - r>>

IsSymmetricImage(produced, input) ==
    /\ produced.size = input.size
    /\ \E k \in 0..7 :
          \A q \in Cells(input.size) :
             produced.cells[q] = input.cells[Symmetry(input.size, k, q)]

\* C12 (as claimed): for every pattern size 3..7, getAllNbyNPatterns returns 16
\* patterns and each of them is the image of the input under one of the 8
\* symmetries of the square.
C12_PatternsAreSymmetries ==
    patterns # <<>> =>
        /\ Len(patterns) = 16
        /\ \A i \in 1..16 : IsSymmetricImage(patterns[i], pattern)

=============================================================================
